---- MODULE Spec2Model ----
(***************************************************************************)
(* Model of the two-stage face recognition pipeline:                       *)
(*   fd_lambda.py  Detection Stage   (ingest request -> request queue)     *)
(*   fr_lambda.py  Recognition Stage (request queue batch -> response      *)
(*                                    queue)                               *)
(* Each handler is translated statement group by statement group; the      *)
(* external collaborators (MTCNN, the embedding network, SQS, /tmp) are    *)
(* modelled by their observable outcomes.                                  *)
(***************************************************************************)
EXTENDS Integers, Sequences, FiniteSets, TLC

VARIABLES
    \* ---- fd_lambda.py ----
    fdPc,          \* position inside fd_lambda.lambda_handler
    fdEvent,       \* the event of the current invocation
    fdResp,        \* the value returned by the current invocation
    fdFace,        \* result of detector.detect_face in this invocation
    fdTmp,         \* temp artifacts created by this invocation still on disk
    fdInputPath,   \* local input_path: the name of the input temp file
    fdCropPath,    \* local face_img_path: where detect_face saved the crop
    fdSends,       \* calls of sqs.send_message made by this invocation
    fdEnq,         \* messages this invocation put on the request queue
    fdSendExc,     \* what sqs.send_message raised in this invocation ("" if nothing)
    fdCalls,       \* invocations started so far
    reqQueue,      \* the SQS request queue
    \* ---- fr_lambda.py ----
    frPc,          \* position inside fr_lambda.lambda_handler
    frLen,         \* len(event["Records"]) of the current invocation
    frBatch,       \* the records of event["Records"] the loop has reached so far
    frIdx,         \* index of the record the for loop is at
    frReqId,       \* local request_id   (None until assigned)
    frFacePath,    \* local face_path    (None until assigned)
    frImage,       \* bytes written to the record's temp file
    frLabel,       \* local label
    frTmp,         \* records of this batch whose temp file is still on disk
    frLog,         \* per record: what the loop body did with it
    frResp,        \* the value returned by the current invocation
    frAcked,       \* records the invocation reports as consumed
    loaded,        \* recognizer: which of resnet / gallery are initialised
    loads,         \* recognizer: how often each was initialised
    frGallery,     \* recognizer: _embeddings and _names
    frResults,     \* every (HandoffMessage, ResultMessage) pair published so far
    frSent,        \* messages this invocation put on the SQS response queue, in order
    frSentBy,      \* per message of frSent: index of the record it was sent for
    \* ---- pure functions, applied to drawn inputs ----
    matchIn,       \* a gallery (embeddings, names) and a query embedding
    matchOut,      \* what the matching of predict returns for matchIn (None before)
    normIn,        \* a face tensor returned by MTCNN
    normOut        \* the pixels detect_face computes from normIn (<<>> before)

fdVars == <<fdPc, fdEvent, fdResp, fdFace, fdTmp, fdInputPath, fdCropPath, fdSends, fdEnq, fdSendExc, fdCalls,
           reqQueue>>
frVars == <<frPc, frLen, frBatch, frIdx, frReqId, frFacePath, frImage, frLabel, frTmp,
            frLog, frResp, frAcked, loaded, loads, frGallery, frResults, frSent, frSentBy>>
fnVars == <<matchIn, matchOut, normIn, normOut>>
vars == <<fdVars, frVars, fnVars>>

\* ---------------------------------------------------------------------------
\* Bounds
MaxFdCalls == 3        \* ingest invocations per behaviour
MaxBatch == 3          \* records per consumed batch
MaxGallery == 3        \* entries of a drawn gallery
MaxPixels == 3         \* values of a drawn face tensor

\* ---------------------------------------------------------------------------
\* Values
None == "<None>"       \* Python None: an absent key, an unassigned local
TmpName == "/tmp/tmpXXXXXXXX.jpg"   \* a name NamedTemporaryFile generated
NoResp == [statusCode |-> 0, key |-> "", text |-> "", detail |-> ""]

RequestIds == {"r1", "r2"}

\* base64 texts and the bytes they stand for ("abc" has incorrect padding)
B64Face == "ZmFjZQ=="
B64NoFace == "bm9mYWNl"
B64Junk == "anVuaw=="
B64Crop == "Y3JvcA=="
B64Bad == "abc"

\* base64.b64decode: the decoded bytes, or the exception it raises
B64Decode(s) ==
    CASE s = B64Face   -> [ok |-> TRUE, bytes |-> "face", exc |-> ""]
      [] s = B64NoFace -> [ok |-> TRUE, bytes |-> "noface", exc |-> ""]
      [] s = B64Junk   -> [ok |-> TRUE, bytes |-> "junk", exc |-> ""]
      [] s = B64Crop   -> [ok |-> TRUE, bytes |-> "crop", exc |-> ""]
      [] s = B64Bad    -> [ok |-> FALSE, bytes |-> "", exc |-> "Incorrect padding"]
      [] OTHER         -> [ok |-> FALSE, bytes |-> "", exc |-> "TypeError"]

\* base64.b64encode(...).decode("utf-8")
B64Encode(b) ==
    CASE b = "face"   -> B64Face
      [] b = "noface" -> B64NoFace
      [] b = "junk"   -> B64Junk
      [] b = "crop"   -> B64Crop

\* ---------------------------------------------------------------------------
\* fd_lambda.py

\* the events given to the handler: no body, a dict body, a JSON text of an
\* object, a text that is not JSON, a JSON text that is not an object
FieldBodies == [request_id : RequestIds \cup {None, ""},
                filename   : {None, "", "a.jpg"},
                content    : {None, "", B64Face, B64NoFace, B64Junk, B64Bad}]
NoFields == [request_id |-> None, filename |-> None, content |-> None]
Events == [bodyKind : {"dict", "json_object"}, body : FieldBodies]
          \cup [bodyKind : {"none", "json_invalid", "json_nonobject"}, body : {NoFields}]

\* _bad_request(message, status)
BadRequest(message, detail, status) ==
    [statusCode |-> status, key |-> "error", text |-> message, detail |-> detail]

Ok200(message) ==
    [statusCode |-> 200, key |-> "message", text |-> message, detail |-> ""]

MissingBodyResponse == BadRequest("Missing request body", "", 400)
MissingFieldsResponse ==
    BadRequest("Missing one or more required fields: request_id, filename, content", "", 400)
InvalidJsonResponse == BadRequest("Request body must be valid JSON", "", 400)
UnhandledResponse(e) == BadRequest("Unhandled error: ", e, 500)
EnqueueFailedResponse_Unhandled(e) == BadRequest("Unhandled error: ", e, 500)
EnqueueFailedResponse(e) == BadRequest("Failed to enqueue message: ", e, 502)
NoFaceResponse_AsError == BadRequest("No face detected.", "", 404)
NoFaceResponse == Ok200("No face detected.")
EnqueuedResponse == Ok200("Face detection complete and request enqueued.")

\* `not request_id or not filename or not content_b64`
Falsy(v) == v = None \/ v = ""
MissingRequiredFields_NoContentCheck(body) ==
    Falsy(body.request_id) \/ Falsy(body.filename)
MissingRequiredFields(body) ==
    Falsy(body.request_id) \/ Falsy(body.filename) \/ Falsy(body.content)

\* a path is a directory and the dot-separated parts of the file name
NoPath == [dir |-> "", parts |-> <<>>]
\* names NamedTemporaryFile(suffix=".jpg", dir="/tmp") may generate
TmpStems == {"tmpk3v9x2ab", "tmp_q8w1zr7"}
InputPath(stem) == [dir |-> "/tmp", parts |-> <<stem, "jpg">>]

\* os.path.basename, os.path.splitext(...)[0] and .split(".")[0] on the parts
Basename(path) == path.parts
SplitExtRoot(parts) == IF Len(parts) > 1 THEN SubSeq(parts, 1, Len(parts) - 1) ELSE parts
\* line 51: key
CropKey(path) == SplitExtRoot(Basename(path))[1]
\* line 52: out_path = <output_dir>/<key>_face.jpg
CropPath(input_path, output_dir) ==
    [dir |-> output_dir, parts |-> <<CropKey(input_path), "_face", "jpg">>]

\* lines 45-48 of detect_face. A face tensor is the sequence of its values,
\* small integers standing for MTCNN's floats.
PixelValues == {-2, -1, 0, 1, 2}
Tensors == UNION {[1..n -> PixelValues] : n \in 1..MaxPixels}

RECURSIVE SeqMin(_), SeqMax(_)
\* tensor.min()
SeqMin(t) ==
    IF Len(t) = 1 THEN t[1]
    ELSE LET m == SeqMin(Tail(t)) IN IF t[1] <= m THEN t[1] ELSE m
\* tensor.max()
SeqMax(t) ==
    IF Len(t) = 1 THEN t[1]
    ELSE LET m == SeqMax(Tail(t)) IN IF t[1] >= m THEN t[1] ELSE m

\* face_img / denom * 255, cut to an integer as .byte() cuts it
ScalePixel_By256(x, denom) == (x * 256) \div denom
ScalePixel(x, denom) == (x * 255) \div denom

\* .byte(): an unsigned 8-bit value
ToByte(v) == v % 256

\* lines 45-48: the pixels of the crop
NormalizeCrop(face_tensor) ==
    LET lo == SeqMin(face_tensor)
        face_img == [i \in DOMAIN face_tensor |-> face_tensor[i] - lo]
        denom == SeqMax(face_img) - SeqMin(face_img)
    IN  [i \in DOMAIN face_img |->
            ToByte(IF denom > 0 THEN ScalePixel(face_img[i], denom) ELSE face_img[i] * 0)]

\* lines 45-48 applied to normIn
NormApply ==
    /\ normIn # <<>>
    /\ normOut = <<>>
    /\ normOut' = NormalizeCrop(normIn)
    /\ UNCHANGED <<normIn, matchIn, matchOut, fdVars, frVars>>

NextNorm == NormApply

\* FaceDetection.detect_face on the bytes of the input file: Image.open raises
\* on bytes that are no image, MTCNN returns None when it finds no face
DetectFace(bytes) ==
    CASE bytes = "face"   -> "face"
      [] bytes = "noface" -> "noface"
      [] OTHER            -> "raise"

\* sqs.send_message: the queue after the call
SendMessage_Prepend(queue, msg, ok) == IF ok THEN <<msg>> \o queue ELSE queue
SendMessage_Twice(queue, msg, ok) == IF ok THEN Append(Append(queue, msg), msg) ELSE queue
SendMessage(queue, msg, ok) == IF ok THEN Append(queue, msg) ELSE queue

HandoffMessage_Generated(request_id, face) == [request_id |-> "generated-id", face |-> face]
HandoffMessage(request_id, face) == [request_id |-> request_id, face |-> face]

\* lines 73-86, 134-138: read and validate the body
FdValidate ==
    /\ fdPc \in {"idle", "done"}
    /\ fdCalls < MaxFdCalls
    /\ \E event \in Events :
        /\ fdEvent' = event
        /\ fdCalls' = fdCalls + 1
        /\ fdFace' = None
        /\ fdTmp' = {}
        /\ fdInputPath' = NoPath
        /\ fdCropPath' = NoPath
        /\ fdSends' = 0
        /\ fdEnq' = 0
        /\ fdSendExc' = None
        /\ CASE event.bodyKind = "none" ->
                    fdResp' = MissingBodyResponse /\ fdPc' = "done"
             [] event.bodyKind = "json_invalid" ->
                    fdResp' = InvalidJsonResponse /\ fdPc' = "done"
             [] event.bodyKind = "json_nonobject" ->
                    fdResp' = UnhandledResponse("'list' object has no attribute 'get'") /\ fdPc' = "done"
             [] OTHER ->
                    IF MissingRequiredFields(event.body)
                    THEN fdResp' = MissingFieldsResponse /\ fdPc' = "done"
                    ELSE fdResp' = NoResp /\ fdPc' = "write"
    /\ UNCHANGED <<reqQueue, frVars, fnVars>>

\* lines 89-91, 136-138: create the input temp file and write the decoded bytes
FdWriteInput ==
    /\ fdPc = "write"
    /\ fdTmp' = fdTmp \cup {"input"}
    /\ \E stem \in TmpStems : fdInputPath' = InputPath(stem)
    /\ LET d == B64Decode(fdEvent.body.content) IN
        IF d.ok
        THEN fdPc' = "detect" /\ fdResp' = fdResp
        ELSE fdPc' = "done" /\ fdResp' = UnhandledResponse(d.exc)
    /\ UNCHANGED <<fdEvent, fdFace, fdCropPath, fdSends, fdEnq, fdSendExc, fdCalls, reqQueue,
                   frVars, fnVars>>

\* lines 94-109, 136-138: mkdtemp, detect_face, removal of the input file
FdDetect ==
    /\ fdPc = "detect"
    /\ LET r == DetectFace(B64Decode(fdEvent.body.content).bytes) IN
        /\ fdFace' = r
        /\ CASE r = "raise" ->
                    /\ fdTmp' = fdTmp \cup {"outdir"}
                    /\ fdCropPath' = fdCropPath
                    /\ fdResp' = UnhandledResponse("cannot identify image file")
                    /\ fdPc' = "done"
             [] r = "noface" ->
                    /\ fdTmp' = (fdTmp \cup {"outdir"}) \ {"input"}
                    /\ fdCropPath' = fdCropPath
                    /\ fdResp' = NoFaceResponse
                    /\ fdPc' = "done"
             [] OTHER ->
                    /\ fdTmp' = (fdTmp \cup {"outdir", "crop"}) \ {"input"}
                    /\ fdCropPath' = CropPath(fdInputPath, "/tmp/outdir")
                    /\ fdResp' = fdResp
                    /\ fdPc' = "send"
    /\ UNCHANGED <<fdEvent, fdInputPath, fdSends, fdEnq, fdSendExc, fdCalls, reqQueue,
                   frVars, fnVars>>

\* lines 112-132: encode the crop, send it, remove the crop file
FdSend ==
    /\ fdPc = "send"
    /\ \E ok \in BOOLEAN :
        LET msg == HandoffMessage(fdEvent.body.request_id, B64Encode("crop"))
            q == SendMessage(reqQueue, msg, ok)
        IN  /\ reqQueue' = q
            /\ fdSends' = fdSends + 1
            /\ fdEnq' = fdEnq + (Len(q) - Len(reqQueue))
            /\ fdSendExc' = IF ok THEN "" ELSE "ClientError"
            /\ fdResp' = IF ok THEN EnqueuedResponse
                         ELSE EnqueueFailedResponse("ClientError")
    /\ fdTmp' = fdTmp \ {"crop"}
    /\ fdPc' = "done"
    /\ UNCHANGED <<fdEvent, fdFace, fdInputPath, fdCropPath, fdCalls, frVars, fnVars>>

NextFD == FdValidate \/ FdWriteInput \/ FdDetect \/ FdSend

\* ---------------------------------------------------------------------------
\* fr_lambda.py

\* the records of a batch: no "body" key, a body that is not JSON, or the JSON
\* text of an object with or without the keys request_id and face
FrBody(request_id, face) == [request_id |-> request_id, face |-> face]
FrBodies == {FrBody(None, B64Crop), FrBody("r1", None),
             FrBody("r1", B64Crop), FrBody("r2", B64Crop), FrBody("r2", B64Face),
             FrBody("r1", B64Bad), FrBody("r2", B64Junk)}
Records == [kind : {"object"}, body : FrBodies]
           \cup [kind : {"no_body", "bad_json"}, body : {FrBody(None, None)}]

\* embeddings are vectors of two small integer coordinates
Coords == {0, 1, 2}
Vectors == [1..2 -> Coords]

\* the gallery saved in MODEL_WT_PATH and the embedding network of MODEL_PATH
GalleryEmbeddings == <<<<0, 0>>, <<2, 1>>, <<0, 2>>>>
GalleryNames == <<"A", "B", "A">>
Embed(image) == IF image = "crop" THEN <<2, 1>> ELSE <<0, 1>>

\* torch.dist(emb, e): the L2 distance; its square is kept, which orders any
\* two distances as the distance itself does
Dist(a, b) == (a[1] - b[1]) * (a[1] - b[1]) + (a[2] - b[2]) * (a[2] - b[2])

\* np.argmin: the first index holding the minimum
ArgMin_Last(dists) ==
    CHOOSE i \in DOMAIN dists :
        /\ \A j \in DOMAIN dists : dists[i] <= dists[j]
        /\ \A j \in DOMAIN dists : dists[j] = dists[i] => j <= i
ArgMin(dists) ==
    CHOOSE i \in DOMAIN dists :
        /\ \A j \in DOMAIN dists : dists[i] <= dists[j]
        /\ \A j \in DOMAIN dists : dists[j] = dists[i] => i <= j

\* lines 50-53 of predict: the name at the nearest gallery embedding
NearestName(embeddings, names, emb) ==
    LET dists == [i \in DOMAIN embeddings |-> Dist(emb, embeddings[i])]
    IN  names[ArgMin(dists)]

\* what torch.load(MODEL_WT_PATH) returns, and the recognizer's fields before
SavedGallery == [embeddings |-> GalleryEmbeddings, names |-> GalleryNames]
NoGallery == [embeddings |-> <<>>, names |-> <<>>]

\* _load_models: `is None` of the field m, given the fields already set
NeedsLoad_Always(m, ld) == TRUE
NeedsLoad(m, ld) == m \notin ld

\* FaceRecognition.predict once the image is open
Predict(gallery, image) == NearestName(gallery.embeddings, gallery.names, Embed(image))

\* the gallery after lines 43-53: predict only reads _embeddings and _names
GalleryAfterPredict_Rotates(gallery) ==
    [embeddings |-> gallery.embeddings, names |-> Tail(gallery.names) \o <<Head(gallery.names)>>]
GalleryAfterPredict(gallery) == gallery

\* the galleries and queries the matching is applied to
MatchInputs ==
    UNION {[embeddings : [1..n -> Vectors], names : [1..n -> {"A", "B"}], query : Vectors] :
           n \in 0..MaxGallery}
NoMatchInput == [embeddings |-> <<>>, names |-> <<>>, query |-> <<0, 0>>]

\* lines 50-53 applied to matchIn; np.argmin raises ValueError on an empty list
MatchPredict ==
    /\ matchOut = None
    /\ matchOut' = IF matchIn.embeddings = <<>> THEN "ValueError"
                   ELSE NearestName(matchIn.embeddings, matchIn.names, matchIn.query)
    /\ UNCHANGED <<matchIn, normIn, normOut, fdVars, frVars>>

NextMatch == MatchPredict

\* the except clauses of the loop body: what each exception class leads to
Handler_NoCatchAll(exc) ==
    CASE exc \in {"KeyError", "JSONDecodeError"} -> "bad_payload"
      [] exc \in {"BotoCoreError", "ClientError"} -> "sqs_error"
      [] OTHER -> "propagate"
Handler(exc) ==
    CASE exc \in {"KeyError", "JSONDecodeError"} -> "bad_payload"
      [] exc \in {"BotoCoreError", "ClientError"} -> "sqs_error"
      [] OTHER -> "processing_failure"

ResultMessage_Swapped(request_id, label) == [request_id |-> label, result |-> request_id]
ResultMessage(request_id, label) == [request_id |-> request_id, result |-> label]

\* what the invocation's outcome tells the SQS trigger about the batch: a
\* return without batchItemFailures acknowledges every record, an exception none
Acknowledged(batch, raised) == IF raised THEN {} ELSE DOMAIN batch

Raised == [statusCode |-> -1, key |-> "exception", text |-> "", detail |-> ""]
CompletedResponse == Ok200("Face recognition completed.")

\* line 97: the value returned after the loop, given what happened to the records
ReturnValue_ReportsFailures(log) ==
    IF \E i \in DOMAIN log : log[i] # "sent"
    THEN BadRequest("Face recognition failed.", "", 500)
    ELSE CompletedResponse
ReturnValue(log) == CompletedResponse

\* line 64: the handler is invoked with a batch and the loop starts; the
\* records of the batch are drawn as the loop reaches them
FrInvoke ==
    /\ frPc \in {"idle", "done"}
    /\ \E n \in 0..MaxBatch :
        /\ frLen' = n
        /\ frIdx' = IF n > 0 THEN 1 ELSE 0
        /\ frPc' = IF n > 0 THEN "parse" ELSE "return"
    /\ frBatch' = <<>>
    /\ frReqId' = None
    /\ frFacePath' = None
    /\ frImage' = None
    /\ frLabel' = None
    /\ frTmp' = {}
    /\ frLog' = <<>>
    /\ frResp' = NoResp
    /\ frAcked' = {}
    /\ frSent' = <<>>
    /\ frSentBy' = <<>>
    /\ UNCHANGED <<loaded, loads, frGallery, frResults, fdVars, fnVars>>

\* lines 65-69, 83-84: face_path = None, json.loads(record["body"]) and the keys
FrParse ==
    /\ frPc = "parse"
    /\ frFacePath' = None
    /\ \E rec \in Records :
       LET exc == CASE rec.kind = "no_body" -> "KeyError"
                    [] rec.kind = "bad_json" -> "JSONDecodeError"
                    [] rec.body.request_id = None -> "KeyError"
                    [] rec.body.face = None -> "KeyError"
                    [] OTHER -> ""
       IN  /\ frBatch' = Append(frBatch, rec)
           /\ IF exc = ""
              THEN /\ frReqId' = rec.body.request_id
                   /\ frPc' = "write"
                   /\ frLog' = frLog
              ELSE /\ frReqId' = IF rec.kind = "object" /\ rec.body.request_id # None
                                 THEN rec.body.request_id ELSE frReqId
                   /\ frPc' = "finally"
                   /\ frLog' = Append(frLog, Handler(exc))
    /\ UNCHANGED <<frLen, frIdx, frImage, frLabel, frTmp, frResp, frAcked,
                   loaded, loads, frGallery, frResults, frSent, frSentBy, fdVars, fnVars>>

\* lines 72-74, 87-89: the temp file is created, then the decoded face written,
\* then face_path assigned
FrWrite ==
    /\ frPc = "write"
    /\ frTmp' = frTmp \cup {frIdx}
    /\ LET d == B64Decode(frBatch[frIdx].body.face) IN
        IF d.ok
        THEN /\ frFacePath' = TmpName
             /\ frImage' = d.bytes
             /\ frPc' = "predict"
             /\ frLog' = frLog
        ELSE /\ frFacePath' = frFacePath
             /\ frImage' = frImage
             /\ frPc' = "finally"
             /\ frLog' = Append(frLog, Handler("ValueError"))
    /\ UNCHANGED <<frLen, frBatch, frIdx, frReqId, frLabel, frResp, frAcked,
                   loaded, loads, frGallery, frResults, frSent, frSentBy, fdVars, fnVars>>

\* lines 77, 32-53, 87-89: recognizer.predict(face_path)
FrPredict ==
    /\ frPc = "predict"
    /\ loaded' = {"resnet", "gallery"}
    /\ loads' = [m \in DOMAIN loads |-> IF NeedsLoad(m, loaded) THEN loads[m] + 1 ELSE loads[m]]
    /\ LET g == IF NeedsLoad("gallery", loaded) THEN SavedGallery ELSE frGallery IN
        IF frImage = "junk"
        THEN /\ frLabel' = frLabel
             /\ frGallery' = g
             /\ frPc' = "finally"
             /\ frLog' = Append(frLog, Handler("UnidentifiedImageError"))
        ELSE /\ frLabel' = Predict(g, frImage)
             /\ frGallery' = GalleryAfterPredict(g)
             /\ frPc' = "send"
             /\ frLog' = frLog
    /\ UNCHANGED <<frLen, frBatch, frIdx, frReqId, frFacePath, frImage, frTmp, frResp, frAcked,
                   frResults, frSent, frSentBy, fdVars, fnVars>>

\* lines 80-81, 85-86: the result is sent to the response queue
FrSend ==
    /\ frPc = "send"
    /\ \E ok \in BOOLEAN :
        LET q == SendMessage(frSent, ResultMessage(frReqId, frLabel), ok) IN
        /\ frSent' = q
        /\ frSentBy' = frSentBy \o [k \in 1..(Len(q) - Len(frSent)) |-> frIdx]
        /\ frResults' = frResults \cup
                {[body |-> frBatch[frIdx].body, msg |-> q[k]] : k \in (Len(frSent) + 1)..Len(q)}
        /\ frLog' = Append(frLog, IF ok THEN "sent" ELSE Handler("ClientError"))
    /\ frPc' = "finally"
    /\ UNCHANGED <<frLen, frBatch, frIdx, frReqId, frFacePath, frImage, frLabel, frTmp, frResp,
                   frAcked, loaded, loads, frGallery, fdVars, fnVars>>

\* lines 90-95 and the loop's step: the temp file named by face_path is removed;
\* an exception no clause caught leaves the handler, otherwise the next record
FrFinally ==
    /\ frPc = "finally"
    /\ frTmp' = IF frFacePath # None THEN frTmp \ {frIdx} ELSE frTmp
    /\ IF frLog[frIdx] = "propagate"
       THEN /\ frPc' = "done"
            /\ frResp' = Raised
            /\ frAcked' = Acknowledged(frBatch, TRUE)
            /\ frIdx' = frIdx
       ELSE /\ frPc' = IF frIdx < frLen THEN "parse" ELSE "return"
            /\ frIdx' = IF frIdx < frLen THEN frIdx + 1 ELSE frIdx
            /\ frResp' = frResp
            /\ frAcked' = frAcked
    /\ UNCHANGED <<frLen, frBatch, frReqId, frFacePath, frImage, frLabel, frLog,
                   loaded, loads, frGallery, frResults, frSent, frSentBy, fdVars, fnVars>>

\* line 97: the handler returns
FrReturn ==
    /\ frPc = "return"
    /\ frResp' = ReturnValue(frLog)
    /\ frAcked' = Acknowledged(frBatch, FALSE)
    /\ frPc' = "done"
    /\ UNCHANGED <<frLen, frBatch, frIdx, frReqId, frFacePath, frImage, frLabel, frTmp, frLog,
                   loaded, loads, frGallery, frResults, frSent, frSentBy, fdVars, fnVars>>

NextFR == FrInvoke \/ FrParse \/ FrWrite \/ FrPredict \/ FrSend \/ FrFinally \/ FrReturn

\* ---------------------------------------------------------------------------
\* Properties of the Detection Stage (checked under SpecFD)

FdDone == fdPc = "done"
FdHasBodyObject == fdEvent.bodyKind \in {"dict", "json_object"}
FdFieldLacking ==
    \E f \in {"request_id", "filename", "content"} : fdEvent.body[f] \in {None, ""}
FdFieldsPresent == FdHasBodyObject /\ ~FdFieldLacking

\* C1: an invocation whose body is absent, or is an object lacking request_id,
\* filename or content (absent or empty), returns 400, calls send_message not
\* once, puts nothing on the request queue and creates no temp artifact.
C1_MissingFieldRejected ==
    (fdCalls > 0 /\ (fdEvent.bodyKind = "none" \/ (FdHasBodyObject /\ FdFieldLacking)))
        => /\ FdDone
           /\ fdResp.statusCode = 400
           /\ fdResp.key = "error"
           /\ fdSends = 0
           /\ fdEnq = 0
           /\ fdTmp = {}

C1_Witness ==
    /\ FdDone
    /\ fdEvent.bodyKind = "json_object"
    /\ fdEvent.body.request_id = "r1"
    /\ fdEvent.body.filename = "a.jpg"
    /\ fdEvent.body.content = ""
    /\ fdResp = MissingFieldsResponse
    /\ Len(reqQueue) = 1

\* C2: a valid request whose image holds no face ends with the 200 response
\* "No face detected." under the key "message", and the invocation never
\* calls send_message nor puts a message on the request queue.
C2_NoFaceIsSuccess ==
    (fdCalls > 0 /\ FdFieldsPresent /\ fdEvent.body.content = B64NoFace)
        => /\ fdSends = 0
           /\ fdEnq = 0
           /\ FdDone => /\ fdResp.statusCode = 200
                        /\ fdResp.key = "message"
                        /\ fdResp.text = "No face detected."

C2_Witness ==
    /\ FdDone
    /\ FdFieldsPresent
    /\ fdEvent.body.content = B64NoFace
    /\ fdFace = "noface"
    /\ fdResp.statusCode = 200
    /\ Len(reqQueue) = 1

\* C3: every invocation calls send_message at most once and enqueues at most
\* one message; it calls it exactly once iff a face was detected; it returns
\* the 200 "request enqueued" response iff its one message is on the queue;
\* an invocation ending in 400, 500, 502 or no-face enqueued nothing.
C3_OneMessagePerFace ==
    /\ fdSends <= 1
    /\ fdEnq <= fdSends
    /\ Len(reqQueue) <= fdCalls
    /\ FdDone =>
        /\ (fdSends = 1) <=> (fdFace = "face")
        /\ (fdResp = EnqueuedResponse) <=> (fdEnq = 1)
        /\ (fdResp = EnqueuedResponse) <=> (fdSendExc = "")
        /\ fdResp.statusCode \in {400, 500, 502} => fdEnq = 0
        /\ fdFace # "face" => fdEnq = 0

C3_Witness ==
    /\ FdDone
    /\ fdFace = "face"
    /\ fdResp = EnqueuedResponse
    /\ fdEnq = 1
    /\ fdCalls = 3
    /\ Len(reqQueue) = 1
    /\ reqQueue[1] = HandoffMessage(fdEvent.body.request_id, B64Crop)

\* C7: a request whose content is present but is no valid base64, or whose
\* body is no parseable JSON, ends with a 400 response and no handoff message.
C7_InvalidEncodingIsClientError ==
    (FdDone /\ (fdEvent.bodyKind = "json_invalid"
                \/ (FdFieldsPresent /\ fdEvent.body.content = B64Bad)))
        => /\ fdResp.statusCode = 400
           /\ fdEnq = 0

\* C8: once the handler has returned, no temp artifact the invocation created
\* (input file, output directory, crop file) is left.
C8_NoArtifactLeft == FdDone => fdTmp = {}

\* C10: when a face was detected and send_message raised, the response is 502,
\* the request queue did not get a message from this invocation, and the crop
\* file is removed.
C10_SendFailureIs502 ==
    (FdDone /\ fdSendExc \notin {None, ""})
        => /\ fdFace = "face"
           /\ fdResp.statusCode = 502
           /\ fdResp.key = "error"
           /\ fdEnq = 0
           /\ "crop" \notin fdTmp

C10_Witness ==
    /\ FdDone
    /\ fdSendExc = "ClientError"
    /\ fdResp.statusCode = 502
    /\ fdSends = 1
    /\ reqQueue = <<>>

\* ---------------------------------------------------------------------------
\* Properties of the Recognition Stage (checked under SpecFR)

FrDone == frPc = "done"
\* a HandoffMessage: an object with both keys
IsHandoff(rec) ==
    rec.kind = "object" /\ rec.body.request_id # None /\ rec.body.face # None
\* a HandoffMessage whose face is the base64 text of an image
IsWellFormed(rec) == IsHandoff(rec) /\ rec.body.face \in {B64Crop, B64Face}
SentFor(i) == {k \in DOMAIN frSentBy : frSentBy[k] = i}

\* C4: when the handler is through with a batch it has reached every record;
\* each well-formed record got to the publish step whatever its neighbours
\* were, and has exactly one result message unless its own publish failed;
\* no other record has a result message.
C4_BatchIsolation ==
    FrDone =>
        /\ Len(frBatch) = frLen
        /\ Len(frLog) = frLen
        /\ \A i \in 1..Len(frBatch) :
            IF IsWellFormed(frBatch[i])
            THEN /\ frLog[i] \in {"sent", "sqs_error"}
                 /\ frLog[i] = "sent" => Cardinality(SentFor(i)) = 1
                 /\ frLog[i] = "sqs_error" => SentFor(i) = {}
            ELSE SentFor(i) = {}

C4_Witness ==
    /\ FrDone
    /\ frLen = 3
    /\ frBatch[2].kind = "bad_json"
    /\ frBatch[1].body.face = B64Crop
    /\ frBatch[3].body.face = B64Crop
    /\ frSentBy = <<1, 3>>
    /\ Len(frSent) = 2

C6_FailedRecordLeftForRedelivery ==
    FrDone =>
        \A i \in 1..Len(frLog) :
            frLog[i] \in {"sqs_error", "processing_failure"} => i \notin frAcked

\* C9: once the handler has returned, no temp file created for a record of the
\* batch is left.
C9_NoTempFileLeft == FrDone => frTmp = {}

\* ---------------------------------------------------------------------------
\* Further properties of the Detection Stage (checked under SpecFD)

\* C15: a 500 response is one generic failure: its body is the same whatever
\* exception was caught and holds nothing of the exception's message.
C15_Generic500 ==
    (FdDone /\ fdResp.statusCode = 500) => fdResp.detail = ""

\* a request the client got wrong: no body, a body that is no JSON object, a
\* required field absent or empty, or a content that is no valid base64
FdClientError ==
    \/ fdEvent.bodyKind \in {"none", "json_invalid", "json_nonobject"}
    \/ FdFieldLacking
    \/ fdEvent.body.content = B64Bad

\* C16: the handler always returns one of 200, 400, 502, 500; 200 only when
\* the message was enqueued or no face was found, 400 only for a missing or
\* invalid body or field, 502 only when the publish failed, 500 only for a
\* failure that is neither of those.
C16_StatusCodes ==
    FdDone =>
        /\ fdResp.statusCode \in {200, 400, 502, 500}
        /\ fdResp.statusCode = 200 => (fdEnq = 1 \/ fdFace = "noface")
        /\ fdResp.statusCode = 400 => FdClientError
        /\ fdResp.statusCode = 502 => fdSendExc \notin {None, ""}
        /\ fdResp.statusCode = 500 => (~FdClientError /\ fdSendExc \in {None, ""})

\* the parts of the file names a request may carry in its filename field
FilenameParts(filename) == IF filename = "a.jpg" THEN <<"a", "jpg">> ELSE <<filename>>

\* C19: the key in the name of the saved crop is the stem of the filename
\* field of the request.
C19_CropNamedAfterFilename ==
    fdCropPath # NoPath =>
        fdCropPath.parts[1] = SplitExtRoot(FilenameParts(fdEvent.body.filename))[1]

\* ---------------------------------------------------------------------------
\* Properties of both stages (checked under SpecStages)

\* C11: the message an ingest invocation put on the request queue carries the
\* request_id of that invocation's request, and no other id ever gets on the
\* queue; every result message of a batch carries the request_id of the record
\* it was sent for, also when earlier records of the batch failed.
C11_RequestIdPreserved ==
    /\ fdEnq >= 1 => reqQueue[Len(reqQueue)].request_id = fdEvent.body.request_id
    /\ \A k \in DOMAIN reqQueue : reqQueue[k].request_id \in RequestIds
    /\ \A k \in DOMAIN frSent :
        /\ frSentBy[k] \in DOMAIN frBatch
        /\ frSent[k].request_id = frBatch[frSentBy[k]].body.request_id

C11_Witness ==
    /\ FrDone
    /\ frLen = 3
    /\ frBatch[1].body = FrBody("r1", B64Bad)
    /\ frBatch[2].body = FrBody("r2", B64Crop)
    /\ frBatch[3].body = FrBody("r1", B64Crop)
    /\ frLog = <<"processing_failure", "sent", "sent">>
    /\ frSent[1].request_id = "r2"
    /\ frSent[2].request_id = "r1"

\* ---------------------------------------------------------------------------
\* Properties of the matching (checked under SpecMatch)

\* C12: for a non-empty gallery the matching returns names[i] for the smallest
\* index i whose embedding is at minimum distance from the query; it always
\* returns a gallery name; in a gallery named A, B, A a query equal to the
\* second embedding (and to no earlier one) returns B, and a query nearest to
\* the first and the third alike returns the name at the first.
C12_NearestMatch ==
    (matchOut # None /\ matchIn.embeddings # <<>>) =>
        LET e == matchIn.embeddings
            q == matchIn.query
        IN  /\ \E i \in DOMAIN e :
                /\ matchOut = matchIn.names[i]
                /\ \A j \in DOMAIN e : Dist(q, e[i]) <= Dist(q, e[j])
                /\ \A j \in DOMAIN e : j < i => Dist(q, e[j]) > Dist(q, e[i])
            /\ matchOut \in {matchIn.names[i] : i \in DOMAIN e}
            /\ (Len(e) = 3 /\ matchIn.names = <<"A", "B", "A">> /\ q = e[2] /\ q # e[1])
                    => matchOut = "B"
            /\ (Len(e) = 3 /\ Dist(q, e[1]) = Dist(q, e[3]) /\ Dist(q, e[2]) > Dist(q, e[1]))
                    => matchOut = matchIn.names[1]

C12_Witness ==
    /\ matchOut = "A"
    /\ matchIn.names = <<"A", "B", "B">>
    /\ matchIn.embeddings = <<<<0, 0>>, <<2, 1>>, <<0, 2>>>>
    /\ matchIn.query = <<0, 1>>

\* ---------------------------------------------------------------------------
\* Properties of the recognizer's state (checked under SpecFR)

\* C13: over any number of messages and invocations the embedding model and
\* the gallery are each initialised at most once, both by the first message
\* that reaches predict, and by no later one.
C13_LoadedOnce ==
    /\ loaded \in {{}, {"resnet", "gallery"}}
    /\ \A m \in DOMAIN loads : loads[m] = IF m \in loaded THEN 1 ELSE 0
    /\ (frPc = "send" \/ frSent # <<>> \/ frResults # {}) => loaded = {"resnet", "gallery"}

C13_Witness ==
    /\ frPc = "finally"
    /\ frLog = <<"sent", "processing_failure", "sent">>
    /\ frBatch[2].body.face = B64Junk
    /\ loads = [m \in {"resnet", "gallery"} |-> 1]

\* C14: once loaded the gallery is the saved one whatever messages were
\* processed since, and any two deliveries of the same HandoffMessage, in one
\* batch or in different invocations, were answered by equal result messages.
C14_RedeliveryHarmless ==
    /\ frGallery = IF "gallery" \in loaded THEN SavedGallery ELSE NoGallery
    /\ \A p, q \in frResults : p.body = q.body => p.msg = q.msg
    /\ \A k, l \in DOMAIN frSent :
        frBatch[frSentBy[k]] = frBatch[frSentBy[l]] => frSent[k] = frSent[l]

C14_Witness ==
    /\ FrDone
    /\ frLen = 3
    /\ frBatch[1] = frBatch[3]
    /\ frBatch[2].body = FrBody("r2", B64Face)
    /\ frSent = <<[request_id |-> "r1", result |-> "B"],
                  [request_id |-> "r2", result |-> "A"],
                  [request_id |-> "r1", result |-> "B"]>>
    /\ Cardinality(frResults) = 2

\* ---------------------------------------------------------------------------
\* Properties of the crop normalisation (checked under SpecNorm)

\* C17: when the tensor's maximum exceeds its minimum every pixel of the crop
\* lies in 0..255, a minimum becoming 0 and a maximum 255; when they are equal
\* every pixel is 0 (and nothing is divided by zero).
C17_NormalizedRange ==
    normOut # <<>> =>
        /\ Len(normOut) = Len(normIn)
        /\ LET isMin(v) == \A j \in DOMAIN normIn : v <= normIn[j]
               isMax(v) == \A j \in DOMAIN normIn : v >= normIn[j]
               flat == \A i, j \in DOMAIN normIn : normIn[i] = normIn[j]
           IN  IF flat
               THEN \A i \in DOMAIN normOut : normOut[i] = 0
               ELSE \A i \in DOMAIN normOut :
                        /\ normOut[i] \in 0..255
                        /\ isMin(normIn[i]) => normOut[i] = 0
                        /\ isMax(normIn[i]) => normOut[i] = 255

C17_Witness ==
    /\ normIn = <<-2, 1, 2>>
    /\ normOut = <<0, 191, 255>>

\* ---------------------------------------------------------------------------
\* Properties of the loop over the batch (checked under SpecFR)

\* the indices of the records whose result was published, in batch order
RECURSIVE SentIndices(_)
SentIndices(n) ==
    IF n = 0 THEN <<>>
    ELSE IF frLog[n] = "sent" THEN Append(SentIndices(n - 1), n) ELSE SentIndices(n - 1)

\* C18: the loop is at one record at a time: when it starts on record i every
\* earlier record has its outcome and no later record has been touched; while
\* it works on record i only that record lacks its outcome; and the messages
\* on the response queue are those of the published records in batch order.
C18_SequentialInOrder ==
    /\ frPc = "parse" => (Len(frBatch) = frIdx - 1 /\ Len(frLog) = frIdx - 1)
    /\ frPc \in {"write", "predict", "send"} => (Len(frBatch) = frIdx /\ Len(frLog) = frIdx - 1)
    /\ frPc = "finally" => (Len(frBatch) = frIdx /\ Len(frLog) = frIdx)
    /\ \A i \in frTmp : i <= frIdx
    /\ \A k, l \in DOMAIN frSentBy : k < l => frSentBy[k] < frSentBy[l]
    /\ LET sent == SentIndices(Len(frLog)) IN
        /\ Len(frSent) = Len(sent)
        /\ \A k \in DOMAIN frSent :
            frSent[k].request_id = frBatch[sent[k]].body.request_id

C18_Witness ==
    /\ frPc = "parse"
    /\ frIdx = 3
    /\ frLog = <<"sent", "sent">>
    /\ frSent = <<[request_id |-> "r2", result |-> "A"], [request_id |-> "r1", result |-> "B"]>>
    /\ frTmp = {}

\* C20: whatever happened to the records, the handler has attempted each of
\* them once when it returns, and it returns statusCode 200 with the message
\* "Face recognition completed.", the value it returns when all succeeded.
C20_AlwaysCompleted ==
    FrDone =>
        /\ frResp = [statusCode |-> 200, key |-> "message",
                     text |-> "Face recognition completed.", detail |-> ""]
        /\ Len(frBatch) = frLen
        /\ Len(frLog) = frLen
        /\ frIdx = frLen

C20_Witness ==
    /\ FrDone
    /\ frLen = 3
    /\ frLog = <<"bad_payload", "processing_failure", "sqs_error">>
    /\ frSent = <<>>
    /\ frResp.statusCode = 200

\* the state of both stages after their modules were imported
StagesInit ==
    /\ fdPc = "idle"
    /\ fdEvent = [bodyKind |-> "none", body |-> NoFields]
    /\ fdResp = NoResp
    /\ fdFace = None
    /\ fdTmp = {}
    /\ fdInputPath = NoPath
    /\ fdCropPath = NoPath
    /\ fdSends = 0
    /\ fdEnq = 0
    /\ fdSendExc = None
    /\ fdCalls = 0
    /\ reqQueue = <<>>
    /\ frPc = "idle"
    /\ frLen = 0
    /\ frBatch = <<>>
    /\ frIdx = 0
    /\ frReqId = None
    /\ frFacePath = None
    /\ frImage = None
    /\ frLabel = None
    /\ frTmp = {}
    /\ frLog = <<>>
    /\ frResp = NoResp
    /\ frAcked = {}
    /\ loaded = {}
    /\ loads = [m \in {"resnet", "gallery"} |-> 0]
    /\ frGallery = NoGallery
    /\ frResults = {}
    /\ frSent = <<>>
    /\ frSentBy = <<>>

Init ==
    /\ StagesInit
    /\ matchIn = NoMatchInput
    /\ matchOut = None
    /\ normIn = <<>>
    /\ normOut = <<>>

\* the matching of predict applied to every gallery and query of MatchInputs
InitMatch ==
    /\ StagesInit
    /\ matchIn \in MatchInputs
    /\ matchOut = None
    /\ normIn = <<>>
    /\ normOut = <<>>

SpecMatch == InitMatch /\ [][NextMatch]_vars

\* the normalisation of detect_face applied to every tensor of Tensors
InitNorm ==
    /\ StagesInit
    /\ matchIn = NoMatchInput
    /\ matchOut = None
    /\ normIn \in Tensors
    /\ normOut = <<>>

SpecNorm == InitNorm /\ [][NextNorm]_vars
SpecFD == Init /\ [][NextFD]_vars
SpecFR == Init /\ [][NextFR]_vars

\* The two handlers run in separate processes and share no variable, so a
\* state their interleaving reaches is a pair of a state SpecFD reaches and a
\* state SpecFR reaches. A behaviour of SpecStages runs one of the two stages:
\* a conjunction of a Detection Stage predicate and a Recognition Stage
\* predicate is invariant under the interleaving iff it is invariant here.
NextStage == (frPc = "idle" /\ NextFD) \/ (fdPc = "idle" /\ NextFR)
SpecStages == Init /\ [][NextStage]_vars

====
